---- MODULE Spec2Model ----
(***************************************************************************)
(* The version lifecycle of VersionControlManager (src/src/vcm.py) over a  *)
(* Git repository.  A tag name is a sequence of one-character strings; the *)
(* regular expressions of the code and the SemVer value type are computed  *)
(* character by character.  The repository is the map from tag names to    *)
(* the commit each points at, plus the number of commits on HEAD.  calls   *)
(* holds, for each caller, the call of increment_rc_patch it is inside.    *)
(***************************************************************************)
EXTENDS Integers, Sequences, FiniteSets, TLC

VARIABLES tags, head, promoted, calls

vars == <<tags, head, promoted, calls>>

(* ------------------------------ bounds -------------------------------- *)

\* The most tags the repository holds.
MaxTags == 4

\* The most commits made on HEAD.
MaxCommits == 1

(* --------------------------- characters ------------------------------- *)

Dig == <<"0", "1", "2", "3", "4", "5", "6", "7", "8", "9">>

Digits == {Dig[i] : i \in 1..10}

Letters ==
  {"a", "b", "c", "d", "e", "f", "g", "h", "i", "j", "k", "l", "m",
   "n", "o", "p", "q", "r", "s", "t", "u", "v", "w", "x", "y", "z"}

DigitVal(c) == (CHOOSE i \in 1..10 : Dig[i] = c) - 1

\* str(n) of a non-negative integer.
RECURSIVE Str(_)
Str(n) == IF n < 10 THEN <<Dig[n + 1]>> ELSE Str(n \div 10) \o <<Dig[(n % 10) + 1]>>

\* int(s) of a digit string.
RECURSIVE Num(_)
Num(s) ==
  IF Len(s) = 0 THEN 0
  ELSE 10 * Num(SubSeq(s, 1, Len(s) - 1)) + DigitVal(s[Len(s)])

\* A non-empty run of characters of class S: \d+ or [a-z]+.
Run(s, S) == Len(s) > 0 /\ \A i \in 1..Len(s) : s[i] \in S

\* The first position of character c in s, 0 when there is none.
IndexOf(s, c) ==
  IF \E i \in 1..Len(s) : s[i] = c
  THEN CHOOSE i \in 1..Len(s) : s[i] = c /\ \A j \in 1..(i - 1) : s[j] # c
  ELSE 0

Before(s, i) == SubSeq(s, 1, i - 1)

After(s, i) == SubSeq(s, i + 1, Len(s))

\* The literal channel names.
DEV == <<"d", "e", "v">>

RC == <<"r", "c">>

PATCH == <<"p", "a", "t", "c", "h">>

\* Python's None.
None == <<"None">>

(* ----------------------------- grammars ------------------------------- *)

\* The class of a character: "d" for a digit, "l" for a lowercase letter, and the
\* character itself otherwise.
Class(c) == IF c \in Digits THEN "d" ELSE IF c \in Letters THEN "l" ELSE c

\* acc with character c added: c extends the last run when it is of its class.
Extend(acc, c) ==
  IF Len(acc) > 0 /\ Class(c) \in {"d", "l"} /\ Class(acc[Len(acc)][1]) = Class(c)
  THEN [acc EXCEPT ![Len(acc)] = @ \o <<c>>]
  ELSE Append(acc, <<c>>)

\* s cut into its maximal runs of digits (\d+), runs of letters ([a-z]+) and single
\* other characters.
RECURSIVE Tokens(_, _)
Tokens(s, acc) == IF Len(s) = 0 THEN acc ELSE Tokens(Tail(s), Extend(acc, Head(s)))

Shape(t) == [i \in 1..Len(t) |-> Class(t[i][1])]

NoMatch == [ok |-> FALSE]

ProdGroups(t) ==
  IF Shape(t) = <<"d", ".", "d", ".", "d">>
  THEN [ok |-> TRUE, major |-> t[1], minor |-> t[3], patch |-> t[5]]
  ELSE NoMatch

PreGroups(t) ==
  IF Shape(t) = <<"d", ".", "d", ".", "d", "-", "l", ".", "d">>
  THEN [ok |-> TRUE, major |-> t[1], minor |-> t[3], patch |-> t[5],
        chan |-> t[7], ord |-> t[9]]
  ELSE NoMatch

\* re.fullmatch(r"^(\d+)\.(\d+)\.(\d+)$", s): the three groups, or ok = FALSE.
FullMatchProd(s) == ProdGroups(Tokens(s, <<>>))

\* re.fullmatch(r"^(\d+)\.(\d+)\.(\d+)-([a-z]+)\.(\d+)$", s): the five groups.
FullMatchPre(s) == PreGroups(Tokens(s, <<>>))

\* A numeric identifier SemVer accepts: 0|[1-9]\d* .
NoLeadingZero(d) == Len(d) = 1 \/ d[1] # "0"

NoVersion ==
  [ok |-> FALSE, major |-> 0, minor |-> 0, patch |-> 0, pre |-> FALSE,
   chan |-> <<>>, ord |-> 0]

Version(major, minor, patch, pre, chan, ord) ==
  [ok |-> TRUE, major |-> major, minor |-> minor, patch |-> patch, pre |-> pre,
   chan |-> chan, ord |-> ord]

ParseGroups(q, p) ==
  IF q.ok
  THEN IF NoLeadingZero(q.major) /\ NoLeadingZero(q.minor) /\ NoLeadingZero(q.patch)
          /\ NoLeadingZero(q.ord)
       THEN Version(Num(q.major), Num(q.minor), Num(q.patch), TRUE, q.chan, Num(q.ord))
       ELSE NoVersion
  ELSE IF p.ok /\ NoLeadingZero(p.major) /\ NoLeadingZero(p.minor) /\ NoLeadingZero(p.patch)
  THEN Version(Num(p.major), Num(p.minor), Num(p.patch), FALSE, <<>>, 0)
  ELSE NoVersion

ParseTokens(t) == ParseGroups(PreGroups(t), ProdGroups(t))

\* semver.VersionInfo.parse of a name of one of the two shapes: the value
\* [major, minor, patch, pre, chan, ord], or ok = FALSE (ValueError).
SemverParse(s) == ParseTokens(Tokens(s, <<>>))

\* f"{major}.{minor}.{patch}"
Base(major, minor, patch) ==
  Str(major) \o <<".">> \o Str(minor) \o <<".">> \o Str(patch)

\* f"{base}-{channel}.{ordinal}"
PreName(base, channel, ordinal) == base \o <<"-">> \o channel \o <<".">> \o Str(ordinal)

\* str(v) of a SemVer value.
Format(v) ==
  IF v.pre THEN PreName(Base(v.major, v.minor, v.patch), v.chan, v.ord)
  ELSE Base(v.major, v.minor, v.patch)

\* The canonical names with numbers up to MaxTags + 1, and for each its two matches
\* and its parse, computed once: MatchProd, MatchPre and Parse look a name up here
\* and compute the answer for any other string.
Numbers == 0..(MaxTags + 1)

Canonical ==
  LET bases == {Base(a, b, c) : a \in Numbers, b \in Numbers, c \in Numbers}
  IN bases \cup {PreName(b, c, n) : b \in bases, c \in {DEV, RC, PATCH}, n \in Numbers}

Table ==
  [n \in Canonical |->
     [prod |-> FullMatchProd(n), pre |-> FullMatchPre(n), version |-> SemverParse(n)]]
  @@ <<>>

MatchProd(s) == IF s \in Canonical THEN Table[s].prod ELSE FullMatchProd(s)

MatchPre(s) == IF s \in Canonical THEN Table[s].pre ELSE FullMatchPre(s)

Parse(s) == IF s \in Canonical THEN Table[s].version ELSE SemverParse(s)

\* The code point order of the lowercase letters.
Alphabet ==
  <<"a", "b", "c", "d", "e", "f", "g", "h", "i", "j", "k", "l", "m",
    "n", "o", "p", "q", "r", "s", "t", "u", "v", "w", "x", "y", "z">>

Rank(c) == CHOOSE i \in 1..26 : Alphabet[i] = c

\* Python's a < b on two strings of lowercase letters.
RECURSIVE StrLess(_, _)
StrLess(a, b) ==
  IF Len(b) = 0 THEN FALSE
  ELSE IF Len(a) = 0 THEN TRUE
  ELSE IF a[1] # b[1] THEN Rank(a[1]) < Rank(b[1])
  ELSE StrLess(Tail(a), Tail(b))

\* A variant of VersionInfo.__lt__ that compares the ordinals as text.
Less_TextOrdinal(v, w) ==
  IF <<v.major, v.minor, v.patch>> # <<w.major, w.minor, w.patch>>
  THEN \/ v.major < w.major
       \/ v.major = w.major /\ v.minor < w.minor
       \/ v.major = w.major /\ v.minor = w.minor /\ v.patch < w.patch
  ELSE IF ~v.pre \/ ~w.pre THEN v.pre /\ ~w.pre
  ELSE IF v.chan # w.chan THEN StrLess(v.chan, w.chan)
  ELSE IF Str(v.ord)[1] # Str(w.ord)[1]
  THEN DigitVal(Str(v.ord)[1]) < DigitVal(Str(w.ord)[1])
  ELSE Len(Str(v.ord)) < Len(Str(w.ord))

\* VersionInfo.__lt__: major, minor, patch, then a release above its prereleases,
\* then the prerelease identifiers (the channel as text, the ordinal as a number).
Less(v, w) ==
  IF <<v.major, v.minor, v.patch>> # <<w.major, w.minor, w.patch>>
  THEN \/ v.major < w.major
       \/ v.major = w.major /\ v.minor < w.minor
       \/ v.major = w.major /\ v.minor = w.minor /\ v.patch < w.patch
  ELSE IF ~v.pre \/ ~w.pre THEN v.pre /\ ~w.pre
  ELSE IF v.chan # w.chan THEN StrLess(v.chan, w.chan)
  ELSE v.ord < w.ord

\* VersionInfo.bump_major(), bump_minor(), bump_patch(): the prerelease is dropped.
BumpMajor(v) == Version(v.major + 1, 0, 0, FALSE, <<>>, 0)

BumpMinor(v) == Version(v.major, v.minor + 1, 0, FALSE, <<>>, 0)

BumpPatch(v) == Version(v.major, v.minor, v.patch + 1, FALSE, <<>>, 0)

\* VersionInfo.bump_prerelease() of a value X.Y.Z-c.N: the last number raised by one.
\* A variant of bump_prerelease that starts the ordinal again.
BumpPrerelease_Reset(v) == [v EXCEPT !.ord = 1]

BumpPrerelease(v) == [v EXCEPT !.ord = v.ord + 1]

(* ---------------------------- the backend ----------------------------- *)

\* The names of the tags of a repository T (a set of [name, commit]).
Names(T) == {t.name : t \in T}

\* repo.commit(name): the commit a tag points at.
CommitOf(T, name) == (CHOOSE t \in T : t.name = name).commit

\* What an operation reports: a tag name, None, or an exception.
Ret(name) == [kind |-> "tag", value |-> name, reason |-> ""]

RetNone == [kind |-> "none", value |-> None, reason |-> ""]

Raise(kind, reason) == [kind |-> kind, value |-> None, reason |-> reason]

\* repo.create_tag(name, ref = commit): git refuses a name that exists and a ref
\* that resolves to no commit (HEAD of a repository without commits is commit 0).
\* A variant of CreateTag that also sets a tag "latest" on the commit.
CreateTag_AndLatest(T, name, commit) ==
  IF name \in Names(T)
  THEN [out |-> Raise("GitCommandError", "tag already exists"), tags |-> T]
  ELSE IF commit = 0
  THEN [out |-> Raise("GitCommandError", "HEAD resolves to no commit"), tags |-> T]
  ELSE [out |-> Ret(name),
        tags |-> T \cup {[name |-> name, commit |-> commit],
                         [name |-> <<"l", "a", "t", "e", "s", "t">>, commit |-> commit]}]

\* A variant of CreateTag that deletes a tag that exists and creates it again.
CreateTag_Recreate(T, name, commit) ==
  IF commit = 0
  THEN [out |-> Raise("GitCommandError", "HEAD resolves to no commit"), tags |-> T]
  ELSE [out |-> Ret(name),
        tags |-> {t \in T : t.name # name} \cup {[name |-> name, commit |-> commit]}]

\* A variant of CreateTag that moves a tag that exists (git tag -f).
CreateTag_Force(T, name, commit) ==
  IF commit = 0
  THEN [out |-> Raise("GitCommandError", "HEAD resolves to no commit"), tags |-> T]
  ELSE [out |-> Ret(name),
        tags |-> {t \in T : t.name # name} \cup {[name |-> name, commit |-> commit]}]

CreateTag(T, name, commit) ==
  IF name \in Names(T)
  THEN [out |-> Raise("GitCommandError", "tag already exists"), tags |-> T]
  ELSE IF commit = 0
  THEN [out |-> Raise("GitCommandError", "HEAD resolves to no commit"), tags |-> T]
  ELSE [out |-> Ret(name), tags |-> T \cup {[name |-> name, commit |-> commit]}]

(* ------------------------ Tag Classifier & Matcher -------------------- *)

\* re.search("^" + p + "$", s) for a pattern p of digits, letters, "-" and ".":
\* "." is not escaped and stands for any one character.
WildMatch(p, s) ==
  Len(p) = Len(s) /\ \A i \in 1..Len(p) : p[i] = "." \/ p[i] = s[i]

find_tag(T, tag) == \E n \in Names(T) : WildMatch(tag, n)

\* sorted(keyed, reverse = True)[0]: ValueError when a key did not parse.
\* A variant of Highest that sorts without reverse=True and takes the lowest.
Highest_Lowest(keyed) ==
  IF keyed = {} THEN RetNone
  ELSE IF \E k \in keyed : ~k.key.ok THEN Raise("ValueError", "semver parse")
  ELSE Ret((CHOOSE k \in keyed : \A o \in keyed : ~Less(o.key, k.key)).name)

Highest(keyed) ==
  IF keyed = {} THEN RetNone
  ELSE IF \E k \in keyed : ~k.key.ok THEN Raise("ValueError", "semver parse")
  ELSE Ret((CHOOSE k \in keyed : \A o \in keyed : ~Less(k.key, o.key)).name)

\* The highest of the matching names M under key = semver.VersionInfo.parse.
find_tag_with_pattern(M) == Highest({[name |-> n, key |-> Parse(n)] : n \in M})

\* re.search(prefix + r"\.(\d+)$", name) where prefix is "^" and unescaped text.
MatchPrefixOrd(prefix, name) ==
  /\ Len(name) > Len(prefix) + 1
  /\ WildMatch(prefix, SubSeq(name, 1, Len(prefix)))
  /\ name[Len(prefix) + 1] = "."
  /\ Run(SubSeq(name, Len(prefix) + 2, Len(name)), Digits)

\* A variant of MatchChannel that takes the tags of every channel.
MatchChannel_Any(channel, name) == MatchPre(name).ok

\* re.search(r"^(\d+)\.(\d+)\.(\d+)-" + channel + r"\.(\d+)$", name)
MatchChannel(channel, name) ==
  /\ IndexOf(name, "-") > 0
  /\ MatchProd(Before(name, IndexOf(name, "-"))).ok
  /\ MatchPrefixOrd(channel, After(name, IndexOf(name, "-")))

\* A variant of get_current_tag that answers with the production tag for every query.
get_current_tag_Production(T, prerelease_tag, production) ==
  find_tag_with_pattern({n \in Names(T) : MatchProd(n).ok})

get_current_tag(T, prerelease_tag, production) ==
  IF production
  THEN find_tag_with_pattern({n \in Names(T) : MatchProd(n).ok})
  ELSE find_tag_with_pattern({n \in Names(T) : MatchChannel(prerelease_tag, n)})

\* A variant of InitRcName that numbers the first release candidate 0.
InitRcName_Zero(t) == PreName(Base(t.major, t.minor, t.patch), RC, 0)

\* f"{major}.{minor}.{patch}-rc.1" of a parsed tag.
InitRcName(t) == PreName(Base(t.major, t.minor, t.patch), RC, 1)

\* A variant of InitRcOf that keeps the channel of the tag.
InitRcOf_KeepChannel(m, current_tag) ==
  IF ~m.ok THEN Raise("ValueError", "format")
  ELSE IF ~current_tag.ok THEN Raise("ValueError", "semver parse")
  ELSE Ret(PreName(Base(current_tag.major, current_tag.minor, current_tag.patch),
                   m.chan, 1))

InitRcOf(m, current_tag) ==
  IF ~m.ok THEN Raise("ValueError", "format")
  ELSE IF ~current_tag.ok THEN Raise("ValueError", "semver parse")
  ELSE Ret(InitRcName(current_tag))

get_init_rc_tag(tag) == InitRcOf(MatchPre(tag), Parse(tag))

get_current_rc_patch(T, tag, prerelease_tag) ==
  IF ~MatchProd(tag).ok THEN Raise("ValueError", "format")
  ELSE find_tag_with_pattern(
         {n \in Names(T) : MatchPrefixOrd(tag \o <<"-">> \o prerelease_tag, n)})

(* --------------------------- Lifecycle Engine ------------------------- *)

\* Each operation yields [out, tags]: what it reports and the repository after it.
Keep(T, out) == [out |-> out, tags |-> T]

\* Python's truth value of the tag argument: None and "" are false.
Truthy(tag) == tag # None /\ Len(tag) > 0

\* f"-{prerelease_tag}.1"
Seed(prerelease_tag) == <<"-">> \o prerelease_tag \o <<".", "1">>

\* A variant of NextFrom that starts a new base version where the tag is to be
\* incremented in place.
NextFrom_AlwaysNew(T, h, prerelease_tag, major_bump, init_rc, v) ==
  IF init_rc.kind # "tag" THEN Keep(T, init_rc)
  ELSE IF major_bump THEN CreateTag(T, Format(BumpMajor(v)) \o Seed(prerelease_tag), h)
  ELSE CreateTag(T, Format(BumpMinor(v)) \o Seed(prerelease_tag), h)

\* A variant of NextFrom that looks for the production tag of the base version in
\* place of its first release candidate.
NextFrom_ProbeProd(T, h, prerelease_tag, major_bump, init_rc, v) ==
  IF init_rc.kind # "tag" THEN Keep(T, init_rc)
  ELSE IF find_tag(T, Base(v.major, v.minor, v.patch))
  THEN IF major_bump THEN CreateTag(T, Format(BumpMajor(v)) \o Seed(prerelease_tag), h)
       ELSE CreateTag(T, Format(BumpMinor(v)) \o Seed(prerelease_tag), h)
  ELSE CreateTag(T, Format(BumpPrerelease(v)), h)

\* A variant of NextFrom with the two bumps exchanged.
NextFrom_Swapped(T, h, prerelease_tag, major_bump, init_rc, v) ==
  IF init_rc.kind # "tag" THEN Keep(T, init_rc)
  ELSE IF find_tag(T, init_rc.value)
  THEN IF major_bump THEN CreateTag(T, Format(BumpMinor(v)) \o Seed(prerelease_tag), h)
       ELSE CreateTag(T, Format(BumpMajor(v)) \o Seed(prerelease_tag), h)
  ELSE CreateTag(T, Format(BumpPrerelease(v)), h)

\* A variant of NextFrom that names the tag incremented in place after the channel
\* argument.
NextFrom_ArgChannel(T, h, prerelease_tag, major_bump, init_rc, v) ==
  IF init_rc.kind # "tag" THEN Keep(T, init_rc)
  ELSE IF find_tag(T, init_rc.value)
  THEN IF major_bump THEN CreateTag(T, Format(BumpMajor(v)) \o Seed(prerelease_tag), h)
       ELSE CreateTag(T, Format(BumpMinor(v)) \o Seed(prerelease_tag), h)
  ELSE CreateTag(T, PreName(Base(v.major, v.minor, v.patch), prerelease_tag, v.ord + 1), h)

\* The branch of a base tag that matched the grammar.
NextFrom(T, h, prerelease_tag, major_bump, init_rc, v) ==
  IF init_rc.kind # "tag" THEN Keep(T, init_rc)
  ELSE IF find_tag(T, init_rc.value)
  THEN IF major_bump THEN CreateTag(T, Format(BumpMajor(v)) \o Seed(prerelease_tag), h)
       ELSE CreateTag(T, Format(BumpMinor(v)) \o Seed(prerelease_tag), h)
  ELSE CreateTag(T, Format(BumpPrerelease(v)), h)

\* A variant of increment_prerelease_tag that seeds an empty history at 1.0.0.
increment_prerelease_tag_SeedOne(T, h, tag, prerelease_tag, major_bump) ==
  IF Truthy(tag)
  THEN IF ~MatchPre(tag).ok THEN Keep(T, Raise("ValueError", "format"))
       ELSE NextFrom(T, h, prerelease_tag, major_bump, get_init_rc_tag(tag), Parse(tag))
  ELSE CreateTag(T, Base(1, 0, 0) \o Seed(prerelease_tag), h)

increment_prerelease_tag(T, h, tag, prerelease_tag, major_bump) ==
  IF Truthy(tag)
  THEN IF ~MatchPre(tag).ok THEN Keep(T, Raise("ValueError", "format"))
       ELSE NextFrom(T, h, prerelease_tag, major_bump, get_init_rc_tag(tag), Parse(tag))
  ELSE CreateTag(T, Base(0, 1, 0) \o Seed(prerelease_tag), h)

RcFrom(T, current_dev_tag) ==
  IF current_dev_tag.kind = "none" THEN Keep(T, RetNone)
  ELSE IF current_dev_tag.kind # "tag" THEN Keep(T, current_dev_tag)
  ELSE CreateTag(T, InitRcName(Parse(current_dev_tag.value)),
                 CommitOf(T, current_dev_tag.value))

init_new_rc(T, prerelease_tag) == RcFrom(T, get_current_tag(T, prerelease_tag, FALSE))

PatchFrom(T, current_prod) ==
  IF current_prod.kind = "none" THEN Keep(T, RetNone)
  ELSE IF current_prod.kind # "tag" THEN Keep(T, current_prod)
  ELSE CreateTag(T, current_prod.value \o Seed(PATCH), CommitOf(T, current_prod.value))

\* A variant of init_new_patch that opens the patch family of the lowest production tag.
init_new_patch_Oldest(T) ==
  PatchFrom(T, Highest_Lowest({[name |-> n, key |-> Parse(n)] :
                                 n \in {x \in Names(T) : MatchProd(x).ok}}))

init_new_patch(T) == PatchFrom(T, get_current_tag(T, DEV, TRUE))

\* The three reasons of InvalidTagCreation.
ProdAvailable == "Production version available. Cannot create Release Candidate version!"

\* A variant of the second reason that repeats the first.
ProdNotAvailable_Same == ProdAvailable

ProdNotAvailable == "Production version not available. Cannot create Patch version!"

PatchInProd == "Cannot increment Patch pre-release version. Patch found in Production."

\* A variant of BumpCurrent that skips one ordinal.
BumpCurrent_Skip(T, h, current_rc) ==
  IF current_rc.kind = "none" THEN Keep(T, RetNone)
  ELSE IF current_rc.kind # "tag" THEN Keep(T, current_rc)
  ELSE CreateTag(T, Format(BumpPrerelease(BumpPrerelease(Parse(current_rc.value)))), h)

\* A variant of BumpCurrent that takes an empty family for an error.
BumpCurrent_Strict(T, h, current_rc) ==
  IF current_rc.kind = "none" THEN Keep(T, Raise("ValueError", "nothing to increment"))
  ELSE IF current_rc.kind # "tag" THEN Keep(T, current_rc)
  ELSE CreateTag(T, Format(BumpPrerelease(Parse(current_rc.value))), h)

\* A variant of BumpCurrent that takes the next free ordinal when the name exists.
BumpCurrent_Retry(T, h, current_rc) ==
  IF current_rc.kind = "none" THEN Keep(T, RetNone)
  ELSE IF current_rc.kind # "tag" THEN Keep(T, current_rc)
  ELSE IF Format(BumpPrerelease(Parse(current_rc.value))) \in Names(T)
  THEN CreateTag(T, Format(BumpPrerelease(BumpPrerelease(Parse(current_rc.value)))), h)
  ELSE CreateTag(T, Format(BumpPrerelease(Parse(current_rc.value))), h)

\* A variant of BumpCurrent that looks for the production tag once more before it
\* creates a release candidate.
BumpCurrent_Recheck(T, h, current_rc) ==
  IF current_rc.kind = "none" THEN Keep(T, RetNone)
  ELSE IF current_rc.kind # "tag" THEN Keep(T, current_rc)
  ELSE IF /\ MatchPre(current_rc.value).chan = RC
          /\ find_tag(T, Before(current_rc.value, IndexOf(current_rc.value, "-")))
  THEN Keep(T, Raise("InvalidTagCreation", ProdAvailable))
  ELSE CreateTag(T, Format(BumpPrerelease(Parse(current_rc.value))), h)

\* if current_rc: bump it and create the tag; else None.
BumpCurrent(T, h, current_rc) ==
  IF current_rc.kind = "none" THEN Keep(T, RetNone)
  ELSE IF current_rc.kind # "tag" THEN Keep(T, current_rc)
  ELSE CreateTag(T, Format(BumpPrerelease(Parse(current_rc.value))), h)

\* A variant of the patch branch without the check of the next production patch.
PatchBranch_NoFreeze(T, h, tag, v) ==
  IF ~v.ok THEN Keep(T, Raise("ValueError", "semver parse"))
  ELSE BumpCurrent(T, h, get_current_rc_patch(T, tag, PATCH))

\* A variant of the patch branch that refuses when any higher patch level of the
\* minor version is in production.
PatchBranch_AnyHigher(T, h, tag, v) ==
  IF ~v.ok THEN Keep(T, Raise("ValueError", "semver parse"))
  ELSE IF \E k \in Numbers : k > v.patch /\ find_tag(T, Base(v.major, v.minor, k))
  THEN Keep(T, Raise("InvalidTagCreation", PatchInProd))
  ELSE BumpCurrent(T, h, get_current_rc_patch(T, tag, PATCH))

\* The patch branch, once the production tag was found.
PatchBranch(T, h, tag, v) ==
  IF ~v.ok THEN Keep(T, Raise("ValueError", "semver parse"))
  ELSE IF find_tag(T, Format(BumpPatch(v)))
  THEN Keep(T, Raise("InvalidTagCreation", PatchInProd))
  ELSE BumpCurrent(T, h, get_current_rc_patch(T, tag, PATCH))

\* increment_rc_patch up to the point where current_rc is bound: the checks and the
\* lookup of the highest tag of the family, all reads of the tag list.
ReadCurrent(T, tag, prerelease_tag) ==
  IF ~MatchProd(tag).ok THEN Raise("ValueError", "format")
  ELSE IF prerelease_tag = RC /\ find_tag(T, tag)
  THEN Raise("InvalidTagCreation", ProdAvailable)
  ELSE IF prerelease_tag = PATCH /\ ~find_tag(T, tag)
  THEN Raise("InvalidTagCreation", ProdNotAvailable)
  ELSE IF prerelease_tag = RC THEN get_current_rc_patch(T, tag, RC)
  ELSE IF prerelease_tag # PATCH THEN Raise("UnboundLocalError", "current_rc")
  ELSE IF ~Parse(tag).ok THEN Raise("ValueError", "semver parse")
  ELSE IF find_tag(T, Format(BumpPatch(Parse(tag))))
  THEN Raise("InvalidTagCreation", PatchInProd)
  ELSE get_current_rc_patch(T, tag, PATCH)

\* A variant of increment_rc_patch without the check of the production tag on "rc".
increment_rc_patch_NoRcCheck(T, h, tag, prerelease_tag) ==
  IF ~MatchProd(tag).ok THEN Keep(T, Raise("ValueError", "format"))
  ELSE IF prerelease_tag = PATCH /\ ~find_tag(T, tag)
  THEN Keep(T, Raise("InvalidTagCreation", ProdNotAvailable))
  ELSE IF prerelease_tag = RC
  THEN BumpCurrent(T, h, get_current_rc_patch(T, tag, RC))
  ELSE IF prerelease_tag = PATCH
  THEN PatchBranch(T, h, tag, Parse(tag))
  ELSE Keep(T, Raise("UnboundLocalError", "current_rc"))

\* A variant of increment_rc_patch without the check of the production tag on "patch".
increment_rc_patch_NoProdCheck(T, h, tag, prerelease_tag) ==
  IF ~MatchProd(tag).ok THEN Keep(T, Raise("ValueError", "format"))
  ELSE IF prerelease_tag = RC /\ find_tag(T, tag)
  THEN Keep(T, Raise("InvalidTagCreation", ProdAvailable))
  ELSE IF prerelease_tag = RC
  THEN BumpCurrent(T, h, get_current_rc_patch(T, tag, RC))
  ELSE IF prerelease_tag = PATCH
  THEN PatchBranch(T, h, tag, Parse(tag))
  ELSE Keep(T, Raise("UnboundLocalError", "current_rc"))

\* A variant of increment_rc_patch that refuses a patch request when the production
\* tag exists.
increment_rc_patch_PatchInverted(T, h, tag, prerelease_tag) ==
  IF ~MatchProd(tag).ok THEN Keep(T, Raise("ValueError", "format"))
  ELSE IF prerelease_tag = RC /\ find_tag(T, tag)
  THEN Keep(T, Raise("InvalidTagCreation", ProdAvailable))
  ELSE IF prerelease_tag = PATCH /\ find_tag(T, tag)
  THEN Keep(T, Raise("InvalidTagCreation", ProdNotAvailable))
  ELSE IF prerelease_tag = RC
  THEN BumpCurrent(T, h, get_current_rc_patch(T, tag, RC))
  ELSE IF prerelease_tag = PATCH
  THEN PatchBranch(T, h, tag, Parse(tag))
  ELSE Keep(T, Raise("UnboundLocalError", "current_rc"))

\* A variant of increment_rc_patch that looks the family up before the legality
\* checks and returns None for an empty family.
increment_rc_patch_LookupFirst(T, h, tag, prerelease_tag) ==
  IF ~MatchProd(tag).ok THEN Keep(T, Raise("ValueError", "format"))
  ELSE IF get_current_rc_patch(T, tag, prerelease_tag).kind = "none" THEN Keep(T, RetNone)
  ELSE IF prerelease_tag = RC /\ find_tag(T, tag)
  THEN Keep(T, Raise("InvalidTagCreation", ProdAvailable))
  ELSE IF prerelease_tag = PATCH /\ ~find_tag(T, tag)
  THEN Keep(T, Raise("InvalidTagCreation", ProdNotAvailable))
  ELSE IF prerelease_tag = RC
  THEN BumpCurrent(T, h, get_current_rc_patch(T, tag, RC))
  ELSE IF prerelease_tag = PATCH
  THEN PatchBranch(T, h, tag, Parse(tag))
  ELSE Keep(T, Raise("UnboundLocalError", "current_rc"))

increment_rc_patch(T, h, tag, prerelease_tag) ==
  IF ~MatchProd(tag).ok THEN Keep(T, Raise("ValueError", "format"))
  ELSE IF prerelease_tag = RC /\ find_tag(T, tag)
  THEN Keep(T, Raise("InvalidTagCreation", ProdAvailable))
  ELSE IF prerelease_tag = PATCH /\ ~find_tag(T, tag)
  THEN Keep(T, Raise("InvalidTagCreation", ProdNotAvailable))
  ELSE IF prerelease_tag = RC
  THEN BumpCurrent(T, h, get_current_rc_patch(T, tag, RC))
  ELSE IF prerelease_tag = PATCH
  THEN PatchBranch(T, h, tag, Parse(tag))
  ELSE Keep(T, Raise("UnboundLocalError", "current_rc"))

\* A variant of Promote that does not bump the patch number of a patch tag.
Promote_NoBump(T, tag, m, t) ==
  IF ~m.ok \/ m.chan \notin {RC, PATCH} THEN Keep(T, Raise("ValueError", "format"))
  ELSE IF ~t.ok THEN Keep(T, Raise("ValueError", "semver parse"))
  ELSE IF tag \notin Names(T) THEN Keep(T, Raise("BadName", "tag resolves to no commit"))
  ELSE CreateTag(T, Base(t.major, t.minor, t.patch), CommitOf(T, tag))

\* A variant of Promote that bumps the patch number of an rc tag too.
Promote_AlwaysBump(T, tag, m, t) ==
  IF ~m.ok \/ m.chan \notin {RC, PATCH} THEN Keep(T, Raise("ValueError", "format"))
  ELSE IF ~t.ok THEN Keep(T, Raise("ValueError", "semver parse"))
  ELSE IF tag \notin Names(T) THEN Keep(T, Raise("BadName", "tag resolves to no commit"))
  ELSE CreateTag(T, Format(BumpPatch(t)), CommitOf(T, tag))

\* A variant of Promote without ref: the production tag is set on the newest commit
\* that has a tag.
Promote_NoRef(T, tag, m, t) ==
  IF ~m.ok \/ m.chan \notin {RC, PATCH} THEN Keep(T, Raise("ValueError", "format"))
  ELSE IF ~t.ok THEN Keep(T, Raise("ValueError", "semver parse"))
  ELSE IF tag \notin Names(T) THEN Keep(T, Raise("BadName", "tag resolves to no commit"))
  ELSE IF m.chan = PATCH
  THEN CreateTag(T, Format(BumpPatch(t)),
                 CHOOSE c \in {x.commit : x \in T} : \A x \in T : x.commit <= c)
  ELSE CreateTag(T, Base(t.major, t.minor, t.patch),
                 CHOOSE c \in {x.commit : x \in T} : \A x \in T : x.commit <= c)

\* A variant of Promote that tags the first commit when the source tag is missing.
Promote_Unresolved(T, tag, m, t) ==
  IF ~m.ok \/ m.chan \notin {RC, PATCH} THEN Keep(T, Raise("ValueError", "format"))
  ELSE IF ~t.ok THEN Keep(T, Raise("ValueError", "semver parse"))
  ELSE IF m.chan = PATCH
  THEN CreateTag(T, Format(BumpPatch(t)), IF tag \in Names(T) THEN CommitOf(T, tag) ELSE 1)
  ELSE CreateTag(T, Base(t.major, t.minor, t.patch),
                 IF tag \in Names(T) THEN CommitOf(T, tag) ELSE 1)

\* The production name of a matched rc or patch tag, and its creation.
Promote(T, tag, m, t) ==
  IF ~m.ok \/ m.chan \notin {RC, PATCH} THEN Keep(T, Raise("ValueError", "format"))
  ELSE IF ~t.ok THEN Keep(T, Raise("ValueError", "semver parse"))
  ELSE IF tag \notin Names(T) THEN Keep(T, Raise("BadName", "tag resolves to no commit"))
  ELSE IF m.chan = PATCH THEN CreateTag(T, Format(BumpPatch(t)), CommitOf(T, tag))
  ELSE CreateTag(T, Base(t.major, t.minor, t.patch), CommitOf(T, tag))

create_prod_tag(T, tag) == Promote(T, tag, MatchPre(tag), Parse(tag))

(* ------------------------------ inputs -------------------------------- *)

\* The channel arguments.
ChannelArgs == {DEV, RC, PATCH}

\* The text before the first "-" of a name: its base version.
BaseOf(name) ==
  IF IndexOf(name, "-") > 0 THEN Before(name, IndexOf(name, "-")) ELSE name

\* Tag arguments that need not name a tag of the repository, two of them malformed.
FixedTagArgs ==
  { PreName(Base(0, 1, 0), RC, 1),
    PreName(Base(0, 1, 0), PATCH, 1),
    Base(0, 1, 0),
    <<"0", "1", ".", "0", ".", "0", "-", "r", "c", ".", "1">> }

TagArgs == Names(tags) \cup FixedTagArgs

BaseArgs == {BaseOf(n) : n \in TagArgs}

(* --------------------------- the state machine ------------------------ *)

\* VersionControlManager(repo_path) on a new path: Repo.init, no commit, no tag.
\* The callers of one repository, and a caller that is in no call.
MaxCallers == 2

Callers == 1..MaxCallers

Idle == [pc |-> "idle"]

Init ==
  /\ tags = {}
  /\ head = 0
  /\ promoted = {}
  /\ calls = [c \in Callers |-> Idle]

\* A call that yields r leaves the repository r.tags (of at most MaxTags tags).
Step(r) ==
  /\ r.tags = tags \/ Cardinality(tags) < MaxTags
  /\ tags' = r.tags
  /\ UNCHANGED <<head, calls>>

\* A commit on HEAD, made between two calls.
EmptyCommit ==
  /\ head < MaxCommits
  /\ head' = head + 1
  /\ UNCHANGED <<tags, promoted, calls>>

IncrementPrereleaseTag ==
  \E tag \in TagArgs \cup {None}, channel \in ChannelArgs, major_bump \in BOOLEAN :
    /\ Step(increment_prerelease_tag(tags, head, tag, channel, major_bump))
    /\ UNCHANGED promoted

InitNewRc ==
  \E channel \in ChannelArgs :
    /\ Step(init_new_rc(tags, channel))
    /\ UNCHANGED promoted

InitNewPatch ==
  /\ Step(init_new_patch(tags))
  /\ UNCHANGED promoted

IncrementRcPatch ==
  \E tag \in BaseArgs, channel \in ChannelArgs :
    /\ Step(increment_rc_patch(tags, head, tag, channel))
    /\ UNCHANGED promoted

\* promoted: the production tags create_prod_tag has created.
CreateProdTag ==
  \E tag \in TagArgs :
    /\ Step(create_prod_tag(tags, tag))
    /\ promoted' = promoted \cup (Names(tags') \ Names(tags))

Next ==
  \/ EmptyCommit
  \/ IncrementPrereleaseTag
  \/ InitNewRc
  \/ InitNewPatch
  \/ IncrementRcPatch
  \/ CreateProdTag

Spec == Init /\ [][Next]_vars

(* ------------------------------ the claims ---------------------------- *)

(* ---------------- the lifecycle, driven with current tags -------------- *)

\* The callers of this specification pass what the queries return: the current dev
\* tag, the base versions and the tags of the repository.
MaxWalkTags == 8

MaxWalkCommits == 2

\* A commit is made between two calls: HEAD moves on.
WalkCommit ==
  /\ head < MaxWalkCommits
  /\ head' = head + 1
  /\ UNCHANGED <<tags, promoted, calls>>

WalkStep(r) ==
  /\ r.tags = tags \/ Cardinality(r.tags) <= MaxWalkTags
  /\ tags' = r.tags
  /\ UNCHANGED <<head, calls>>

\* The base tag a caller takes from get_current_tag(): None when there is none.
CurrentDev ==
  IF get_current_tag(tags, DEV, FALSE).kind = "tag"
  THEN get_current_tag(tags, DEV, FALSE).value
  ELSE None

WalkAdvance ==
  /\ WalkStep(increment_prerelease_tag(tags, head, CurrentDev, DEV, FALSE))
  /\ UNCHANGED promoted

WalkInitRc ==
  /\ WalkStep(init_new_rc(tags, DEV))
  /\ UNCHANGED promoted

WalkInitPatch ==
  /\ WalkStep(init_new_patch(tags))
  /\ UNCHANGED promoted

WalkIncrement ==
  /\ \E base \in {BaseOf(n) : n \in Names(tags)}, channel \in {RC, PATCH} :
       WalkStep(increment_rc_patch(tags, head, base, channel))
  /\ UNCHANGED promoted

WalkPromote ==
  /\ \E tag \in Names(tags) : WalkStep(create_prod_tag(tags, tag))
  /\ promoted' = promoted \cup (Names(tags') \ Names(tags))

WalkNext ==
  \/ WalkCommit
  \/ WalkAdvance
  \/ WalkInitRc
  \/ WalkInitPatch
  \/ WalkIncrement
  \/ WalkPromote

Lifecycle == Init /\ [][WalkNext]_vars

\* The tags of the lifecycle of version V = 0.1.0, in the order of the summary.
WalkV == Base(0, 1, 0)

WalkTags ==
  << PreName(WalkV, DEV, 1), PreName(WalkV, DEV, 2),
     PreName(WalkV, RC, 1), PreName(WalkV, RC, 2),
     WalkV,
     PreName(WalkV, PATCH, 1), PreName(WalkV, PATCH, 2),
     Base(0, 1, 1) >>

(***************************************************************************)
(* Callers that interleave.  increment_rc_patch reads the tag list and     *)
(* then creates the tag; nothing in the code holds the repository between  *)
(* the two, so a call is two steps and other calls may run in between.     *)
(* The repository is opened as some earlier walk of the lifecycle left it. *)
(***************************************************************************)
MaxRaceTags == 9

\* The repository after the first i steps of the lifecycle, all on the first commit.
WalkRepo(i) == {[name |-> WalkTags[k], commit |-> 1] : k \in 1..i}

RaceInit ==
  /\ \E i \in 3..7 : tags = WalkRepo(i) /\ promoted = Names(tags) \cap {WalkV}
  /\ head = 1
  /\ calls = [c \in Callers |-> Idle]

\* Caller c enters increment_rc_patch and runs it up to the binding of current_rc.
RaceRead(c) ==
  /\ calls[c] = Idle
  /\ \E tag \in {BaseOf(n) : n \in Names(tags)}, prerelease_tag \in {RC, PATCH} :
       calls' = [calls EXCEPT ![c] =
                   [pc |-> "create", current_rc |-> ReadCurrent(tags, tag, prerelease_tag)]]
  /\ UNCHANGED <<tags, head, promoted>>

\* Caller c runs the rest of its call on what it read, in the repository as it is now.
RaceCreate(c) ==
  /\ calls[c] # Idle
  /\ Cardinality(BumpCurrent(tags, head, calls[c].current_rc).tags) <= MaxRaceTags
  /\ tags' = BumpCurrent(tags, head, calls[c].current_rc).tags
  /\ calls' = [calls EXCEPT ![c] = Idle]
  /\ UNCHANGED <<head, promoted>>

\* A caller runs create_prod_tag on a tag of the repository while others are in a call.
RacePromote ==
  \E tag \in Names(tags) :
    /\ Cardinality(create_prod_tag(tags, tag).tags) <= MaxRaceTags
    /\ tags' = create_prod_tag(tags, tag).tags
    /\ promoted' = promoted \cup (Names(tags') \ Names(tags))
    /\ UNCHANGED <<head, calls>>

RaceNext ==
  \/ \E c \in Callers : RaceRead(c)
  \/ \E c \in Callers : RaceCreate(c)
  \/ RacePromote

Race == RaceInit /\ [][RaceNext]_vars

(***************************************************************************)
(* A repository that was tagged from outside before the manager is used:   *)
(* the manager opens it and works on whatever tags it finds.  The tags are *)
(* any of a few names of the 0.1 line, so production tags occur without    *)
(* the release candidate or the patch level below them.                    *)
(***************************************************************************)
MaxBootTags == 6

BootNames ==
  { Base(0, 1, 0), Base(0, 1, 1), Base(0, 1, 2),
    PreName(Base(0, 1, 0), RC, 1),
    PreName(Base(0, 1, 0), PATCH, 1),
    PreName(Base(0, 1, 1), PATCH, 1) }

BootInit ==
  /\ \E S \in SUBSET BootNames : tags = {[name |-> n, commit |-> 1] : n \in S}
  /\ head = 1
  /\ promoted = {}
  /\ calls = [c \in Callers |-> Idle]

BootStep(r) ==
  /\ r.tags = tags \/ Cardinality(r.tags) <= MaxBootTags
  /\ tags' = r.tags
  /\ UNCHANGED <<head, calls>>

BootInitPatch ==
  /\ BootStep(init_new_patch(tags))
  /\ UNCHANGED promoted

BootIncrement ==
  \E base \in {BaseOf(n) : n \in BootNames}, channel \in {RC, PATCH} :
    /\ BootStep(increment_rc_patch(tags, head, base, channel))
    /\ UNCHANGED promoted

BootPromote ==
  \E tag \in Names(tags) \cup BootNames :
    /\ BootStep(create_prod_tag(tags, tag))
    /\ promoted' = promoted \cup (Names(tags') \ Names(tags))

BootNext == BootInitPatch \/ BootIncrement \/ BootPromote

Bootstrap == BootInit /\ [][BootNext]_vars

\* The base versions X.Y.Z the claims are checked for.
Bases == {Base(a, b, c) : a \in Numbers, b \in Numbers, c \in Numbers}

\* The names of the family (base, channel) in the repository.
Family(base, channel) == {PreName(base, channel, n) : n \in Numbers} \cap Names(tags)

\* A call failed with InvalidTagCreation and left the repository as it was.
Illegal(r) == r.out.kind = "InvalidTagCreation" /\ r.tags = tags

\* C1: in every state reached after create_prod_tag has created a production tag P,
\* the call increment_rc_patch(P, "rc") fails with InvalidTagCreation, for the reason
\* that the production version is available, and creates no tag.
C1_PromotedRefusesRc ==
  \A P \in promoted :
    /\ Illegal(increment_rc_patch(tags, head, P, RC))
    /\ increment_rc_patch(tags, head, P, RC).out.reason = ProdAvailable

\* A promoted version whose rc family is not empty: without the rule the call would
\* have created the next rc.
C1_Witness ==
  \E P \in promoted :
    /\ Family(P, RC) # {}
    /\ Cardinality(tags) > Cardinality(promoted) + 1

\* C2: no step creates a tag V-rc.N in a state where the production tag V exists.
C2_NoRcAfterProduction ==
  [][\A n \in Names(tags') \ Names(tags) :
       MatchPre(n).ok /\ MatchPre(n).chan = RC => BaseOf(n) \notin Names(tags)]_vars

\* C3: a step creates a tag V-patch.N only in a state where the production tag V
\* exists and the production tag bump_patch(V) does not.
C3_PatchOnlyOnProduction ==
  [][\A n \in Names(tags') \ Names(tags) :
       MatchPre(n).ok /\ MatchPre(n).chan = PATCH
         => /\ BaseOf(n) \in Names(tags)
            /\ Format(BumpPatch(Parse(n))) \notin Names(tags)]_vars

\* C4: increment_rc_patch(base, "patch") fails with InvalidTagCreation and creates no
\* tag whenever no production tag named base exists, also when the patch family of
\* base is not empty.
C4_PatchNeedsProduction ==
  \A base \in Bases :
    base \notin Names(tags) => Illegal(increment_rc_patch(tags, head, base, PATCH))

\* A patch family without its production tag.
C4_Witness == \E base \in Bases : base \notin Names(tags) /\ Family(base, PATCH) # {}

\* C5: once the production tag bump_patch(base) exists, increment_rc_patch(base,
\* "patch") fails with InvalidTagCreation and creates no tag.
C5_PatchFamilyFrozen ==
  \A base \in Bases :
    Format(BumpPatch(Parse(base))) \in Names(tags)
      => Illegal(increment_rc_patch(tags, head, base, PATCH))

\* Production base and bump_patch(base) both exist and the patch family of base is
\* not empty: only the freeze keeps the call from creating the next patch.
C5_Witness ==
  \E base \in Bases :
    /\ base \in Names(tags)
    /\ Format(BumpPatch(Parse(base))) \in Names(tags)
    /\ Family(base, PATCH) # {}
    /\ increment_rc_patch(tags, head, base, PATCH).out.reason = PatchInProd

\* The tag arguments the claims are checked for: those of the calls, and for every
\* base version in the repository its first two tags of every channel.
ClaimTagArgs ==
  TagArgs \cup {PreName(BaseOf(n), c, k) : n \in Names(tags), c \in ChannelArgs, k \in 1..2}

\* A call created the tag name, returned it and created nothing else.
Created(r, name) ==
  /\ r.out = Ret(name)
  /\ name \notin Names(tags)
  /\ Names(r.tags) = Names(tags) \cup {name}
  /\ tags \subseteq r.tags

\* A call failed with an error of the given kinds and left the repository as it was.
Failed(r, kinds) == r.out.kind \in kinds /\ r.tags = tags

\* A call failed with git's refusal of a tag name that exists.
Duplicate(r) == Failed(r, {"GitCommandError"}) /\ r.out.reason = "tag already exists"

\* X.Y.Z-rc.N or X.Y.Z-patch.N by the grammar of create_prod_tag.
RcOrPatch(tag) == MatchPre(tag).ok /\ MatchPre(tag).chan \in {RC, PATCH}

\* What the claim names as the production tag of X.Y.Z-rc.N and X.Y.Z-patch.N.
ProdOf(tag) ==
  LET m == MatchPre(tag)
  IN IF m.chan = PATCH THEN Base(Num(m.major), Num(m.minor), Num(m.patch) + 1)
     ELSE Base(Num(m.major), Num(m.minor), Num(m.patch))

\* C6 as claimed, for the tags of the repository: create_prod_tag of every well-formed
\* rc or patch tag creates and returns its production tag.
C6_Claimed ==
  \A tag \in Names(tags) :
    RcOrPatch(tag) => Created(create_prod_tag(tags, tag), ProdOf(tag))

\* C6, amended: create_prod_tag of a well-formed rc tag X.Y.Z-rc.N or patch tag
\* X.Y.Z-patch.N creates and returns X.Y.Z or X.Y.(Z+1), at the commit of the source
\* tag, when the source tag is in the repository and the production tag is not;
\* otherwise it fails and creates nothing: with ValueError for a number with a
\* leading zero, with BadName for a source tag that is not in the repository, with
\* git's duplicate-name error for a production tag that exists.
C6_PromoteName ==
  \A tag \in ClaimTagArgs :
    RcOrPatch(tag) =>
      LET r == create_prod_tag(tags, tag)
      IN IF ~Parse(tag).ok THEN Failed(r, {"ValueError"})
         ELSE IF tag \notin Names(tags) THEN Failed(r, {"BadName"})
         ELSE IF ProdOf(tag) \in Names(tags) THEN Duplicate(r)
         ELSE /\ Created(r, ProdOf(tag))
              /\ CommitOf(r.tags, ProdOf(tag)) = CommitOf(tags, tag)

\* Both promotions have happened: of an rc tag to X.Y.Z and of a patch tag to X.Y.(Z+1).
C6_Witness ==
  \E p \in promoted, q \in promoted :
    /\ p \o Seed(PATCH) \in Names(tags) \/ Family(p, PATCH) # {}
    /\ q = Format(BumpPatch(Parse(p)))
    /\ Family(p, RC) # {}

\* The name increment_prerelease_tag computes for a base tag in SemVer form.
NextName(tag, channel, major_bump) ==
  LET v == Parse(tag)
  IN IF tag = None THEN PreName(Base(0, 1, 0), channel, 1)
     ELSE IF PreName(Base(v.major, v.minor, v.patch), RC, 1) \in Names(tags)
     THEN IF major_bump THEN PreName(Base(v.major + 1, 0, 0), channel, 1)
          ELSE PreName(Base(v.major, v.minor + 1, 0), channel, 1)
     ELSE PreName(Base(v.major, v.minor, v.patch), v.chan, v.ord + 1)

\* C7 as claimed: create_prod_tag fails with the duplicate-name error whenever the
\* production tag it computes exists.
C7_Claimed ==
  \A tag \in ClaimTagArgs :
    RcOrPatch(tag) /\ Parse(tag).ok /\ ProdOf(tag) \in Names(tags)
      => Duplicate(create_prod_tag(tags, tag))

\* C7, amended: when the tag name an operation computes exists, init_new_rc,
\* init_new_patch and increment_prerelease_tag fail with git's duplicate-name error and
\* leave the tag set unchanged, and so does create_prod_tag when its source tag is in
\* the repository; for a source tag that is not, create_prod_tag fails with BadName
\* (the source resolves to no commit) and leaves the tag set unchanged.
C7_DuplicateRefused ==
  /\ \A channel \in ChannelArgs :
       LET current == get_current_tag(tags, channel, FALSE)
       IN current.kind = "tag" /\ InitRcName(Parse(current.value)) \in Names(tags)
            => Duplicate(init_new_rc(tags, channel))
  /\ LET current == get_current_tag(tags, DEV, TRUE)
     IN current.kind = "tag" /\ current.value \o Seed(PATCH) \in Names(tags)
          => Duplicate(init_new_patch(tags))
  /\ \A tag \in ClaimTagArgs :
       RcOrPatch(tag) /\ Parse(tag).ok /\ ProdOf(tag) \in Names(tags)
         => IF tag \in Names(tags) THEN Duplicate(create_prod_tag(tags, tag))
            ELSE Failed(create_prod_tag(tags, tag), {"BadName"})
  /\ \A tag \in ClaimTagArgs \cup {None}, channel \in ChannelArgs, major_bump \in BOOLEAN :
       (tag = None \/ Parse(tag).pre) /\ NextName(tag, channel, major_bump) \in Names(tags)
         => Duplicate(increment_prerelease_tag(tags, head, tag, channel, major_bump))

\* Every one of the four operations meets a name that exists: the rc.1 of the current
\* dev tag, the patch.1 of the current production tag and that production tag itself.
C7_Witness ==
  \E d \in Names(tags) :
    /\ MatchChannel(DEV, d)
    /\ get_current_tag(tags, DEV, FALSE).value = d
    /\ InitRcName(Parse(d)) \in Names(tags)
    /\ BaseOf(d) \in promoted
    /\ BaseOf(d) \o Seed(PATCH) \in Names(tags)

\* C8 as claimed: in a repository without tags, increment_prerelease_tag() creates
\* and returns "0.1.0-{channel}.1".
C8_Claimed ==
  \A channel \in ChannelArgs, major_bump \in BOOLEAN :
    tags = {} =>
      Created(increment_prerelease_tag(tags, head, None, channel, major_bump),
              PreName(Base(0, 1, 0), channel, 1))

\* C8, amended: in a repository without tags that has a commit,
\* increment_prerelease_tag() creates and returns "0.1.0-{channel}.1" ("0.1.0-dev.1"
\* for the default channel), at HEAD; in a repository without commits it fails with a
\* backend error and creates nothing.
C8_Seed ==
  \A channel \in ChannelArgs, major_bump \in BOOLEAN :
    tags = {} =>
      LET r == increment_prerelease_tag(tags, head, None, channel, major_bump)
      IN IF head = 0 THEN Failed(r, {"GitCommandError"})
         ELSE /\ Created(r, PreName(Base(0, 1, 0), channel, 1))
              /\ r.tags = {[name |-> PreName(Base(0, 1, 0), channel, 1), commit |-> head]}

\* The seed of the default channel is the only tag.
C8_Witness == Names(tags) = {<<"0", ".", "1", ".", "0", "-", "d", "e", "v", ".", "1">>}

\* The groups of a base tag as numbers: X, Y, Z and N.
GroupsOf(tag) ==
  LET m == MatchPre(tag)
  IN [major |-> Num(m.major), minor |-> Num(m.minor), patch |-> Num(m.patch),
      chan |-> m.chan, ord |-> Num(m.ord)]

\* X.Y.Z-rc.1 of a base tag X.Y.Z-c.N, from the text of its groups.
RcOneOf(tag) ==
  LET m == MatchPre(tag)
  IN m.major \o <<".">> \o m.minor \o <<".">> \o m.patch \o Seed(RC)

\* C9 as claimed, for a repository that has a commit and numbers without leading
\* zeros: increment_prerelease_tag of a well-formed base tag X.Y.Z-c.N creates and
\* returns X.Y.Z-c.(N+1) when X.Y.Z-rc.1 does not exist.
C9_Claimed ==
  \A tag \in ClaimTagArgs, channel \in ChannelArgs, major_bump \in BOOLEAN :
    head > 0 /\ MatchPre(tag).ok /\ Parse(tag).ok /\ RcOneOf(tag) \notin Names(tags)
      => LET g == GroupsOf(tag)
         IN Created(increment_prerelease_tag(tags, head, tag, channel, major_bump),
                    PreName(Base(g.major, g.minor, g.patch), g.chan, g.ord + 1))

\* C9, amended: for a base tag X.Y.Z-c.N whose numbers have no leading zero, in a
\* state where X.Y.Z-rc.1 does not exist, increment_prerelease_tag creates and returns
\* X.Y.Z-c.(N+1), at HEAD, when the repository has a commit and X.Y.Z-c.(N+1) does not
\* exist yet; otherwise it fails with a backend error and creates nothing.
C9_InPlace ==
  \A tag \in ClaimTagArgs, channel \in ChannelArgs, major_bump \in BOOLEAN :
    MatchPre(tag).ok /\ Parse(tag).ok /\ RcOneOf(tag) \notin Names(tags)
      => LET g == GroupsOf(tag)
             next == PreName(Base(g.major, g.minor, g.patch), g.chan, g.ord + 1)
             r == increment_prerelease_tag(tags, head, tag, channel, major_bump)
         IN IF head = 0 \/ next \in Names(tags) THEN Failed(r, {"GitCommandError"})
            ELSE Created(r, next) /\ CommitOf(r.tags, next) = head

\* A tag and its successor in place, with no rc.1 of their base version.
C9_Witness ==
  \E n \in Names(tags) :
    /\ MatchChannel(DEV, n)
    /\ RcOneOf(n) \notin Names(tags)
    /\ Format(BumpPrerelease(Parse(n))) \in Names(tags)

\* The new base version the claim names: "{X+1}.0.0" or "X.{Y+1}.0".
BumpedBase(tag, major_bump) ==
  LET g == GroupsOf(tag)
  IN IF major_bump THEN Base(g.major + 1, 0, 0) ELSE Base(g.major, g.minor + 1, 0)

\* C10 as claimed: increment_prerelease_tag of a well-formed base tag X.Y.Z-c.N
\* creates and returns "{X+1}.0.0-{channel}.1" or "X.{Y+1}.0-{channel}.1" when
\* X.Y.Z-rc.1 exists.
C10_Claimed ==
  \A tag \in ClaimTagArgs, channel \in ChannelArgs, major_bump \in BOOLEAN :
    MatchPre(tag).ok /\ RcOneOf(tag) \in Names(tags)
      => Created(increment_prerelease_tag(tags, head, tag, channel, major_bump),
                 BumpedBase(tag, major_bump) \o Seed(channel))

\* C10, amended: for a well-formed base tag X.Y.Z-c.N, in a state where X.Y.Z-rc.1
\* exists, increment_prerelease_tag creates and returns "{X+1}.0.0-{channel}.1" when
\* major_bump is set and "X.{Y+1}.0-{channel}.1" otherwise, at HEAD, when that tag does
\* not exist yet; when it exists the call fails with git's duplicate-name error and
\* creates nothing.
C10_NewBase ==
  \A tag \in ClaimTagArgs, channel \in ChannelArgs, major_bump \in BOOLEAN :
    MatchPre(tag).ok /\ RcOneOf(tag) \in Names(tags)
      => LET next == BumpedBase(tag, major_bump) \o Seed(channel)
             r == increment_prerelease_tag(tags, head, tag, channel, major_bump)
         IN IF next \in Names(tags) THEN Duplicate(r)
            ELSE Created(r, next) /\ CommitOf(r.tags, next) = head

\* Both bumps have happened off a base version that has its rc.1.
C10_Witness ==
  \E n \in Names(tags) :
    /\ MatchPre(n).ok
    /\ n = RcOneOf(n)
    /\ BumpedBase(n, TRUE) \o Seed(DEV) \in Names(tags)
    /\ BumpedBase(n, FALSE) \o Seed(DEV) \in Names(tags)

\* The dev tags among the tag arguments, in SemVer form.
DevArgs == {t \in ClaimTagArgs : MatchChannel(DEV, t) /\ Parse(t).ok}

\* The next tag of a base tag in place: X.Y.Z-c.(N+1).
InPlaceOf(tag) ==
  LET g == GroupsOf(tag)
  IN PreName(Base(g.major, g.minor, g.patch), g.chan, g.ord + 1)

C12_NeverIntoReleased ==
  \A tag \in ClaimTagArgs \cup {None}, channel \in ChannelArgs, major_bump \in BOOLEAN :
    \A n \in Names(increment_prerelease_tag(tags, head, tag, channel, major_bump).tags)
              \ Names(tags) :
      BaseOf(n) \notin Names(tags)

\* The base tags C13 is checked for: the tag arguments and one whose ordinal gains a
\* digit when it is bumped.
OrderArgs ==
  {t \in ClaimTagArgs : MatchPre(t).ok}
    \cup {<<"0", ".", "1", ".", "0", "-", "d", "e", "v", ".", "9">>}

\* C13: the tag returned by increment_prerelease_tag(t, ...) for a well-formed
\* prerelease tag t never compares lower than t under SemVer ordering, in the
\* in-place branch and in both base-bump branches; it compares higher.
C13_NeverLower ==
  \A tag \in OrderArgs, channel \in ChannelArgs, major_bump \in BOOLEAN :
    LET r == increment_prerelease_tag(tags, head, tag, channel, major_bump)
    IN r.out.kind = "tag" =>
         /\ Parse(r.out.value).ok
         /\ ~Less(Parse(r.out.value), Parse(tag))
         /\ Less(Parse(tag), Parse(r.out.value))

\* One base tag with its successor in place and with the first tags of both bumped
\* base versions.
C13_Witness ==
  \E t \in Names(tags) :
    /\ MatchPre(t).ok
    /\ InPlaceOf(t) \in Names(tags)
    /\ \E c \in ChannelArgs : BumpedBase(t, FALSE) \o Seed(c) \in Names(tags)
    /\ \E c \in ChannelArgs : BumpedBase(t, TRUE) \o Seed(c) \in Names(tags)

\* The tags of a channel in the repository, and its production tags.
ChannelTags(channel) == {n \in Names(tags) : MatchChannel(channel, n)}

ProdTags == {n \in Names(tags) : MatchProd(n).ok}

\* The SemVer-highest name of a non-empty set of names.
Top(S) == CHOOSE h \in S : \A o \in S \ {h} : Less(Parse(o), Parse(h))

\* C14 as claimed: init_new_rc(channel) returns none and creates no tag when the
\* repository has no tag of the channel, and otherwise creates and returns
\* "{base}-rc.1" for the base version of the highest tag of the channel.
C14_Claimed ==
  \A channel \in ChannelArgs :
    IF ChannelTags(channel) = {}
    THEN init_new_rc(tags, channel) = Keep(tags, RetNone)
    ELSE Created(init_new_rc(tags, channel), BaseOf(Top(ChannelTags(channel))) \o Seed(RC))

\* C14, amended: init_new_rc(channel) returns none and creates no tag when the
\* repository has no tag of the channel; otherwise, with base the base version of the
\* SemVer-highest tag of the channel, it creates and returns "{base}-rc.1", at the
\* commit of that tag, when "{base}-rc.1" does not exist yet, and fails with git's
\* duplicate-name error and creates nothing when it exists.
C14_FirstCandidate ==
  \A channel \in ChannelArgs :
    LET r == init_new_rc(tags, channel)
    IN IF ChannelTags(channel) = {} THEN r = Keep(tags, RetNone)
       ELSE IF BaseOf(Top(ChannelTags(channel))) \o Seed(RC) \in Names(tags)
       THEN Duplicate(r)
       ELSE /\ Created(r, BaseOf(Top(ChannelTags(channel))) \o Seed(RC))
            /\ CommitOf(r.tags, r.out.value) = CommitOf(tags, Top(ChannelTags(channel)))

\* Dev tags of two base versions, and the rc.1 of the higher one only.
C14_Witness ==
  /\ Cardinality({BaseOf(n) : n \in ChannelTags(DEV)}) > 1
  /\ BaseOf(Top(ChannelTags(DEV))) \o Seed(RC) \in Names(tags)
  /\ \E n \in ChannelTags(DEV) : BaseOf(n) \o Seed(RC) \notin Names(tags)

\* C15 as claimed: init_new_patch() returns none and creates no tag when the
\* repository has no production tag, and otherwise creates and returns "{P}-patch.1"
\* for the highest production tag P.
C15_Claimed ==
  IF ProdTags = {} THEN init_new_patch(tags) = Keep(tags, RetNone)
  ELSE Created(init_new_patch(tags), Top(ProdTags) \o Seed(PATCH))

\* C15, amended: init_new_patch() returns none and creates no tag when the repository
\* has no production tag; otherwise, with P the SemVer-highest production tag (the
\* newly created one after a patch was promoted), it creates and returns
\* "{P}-patch.1", at the commit of P, when "{P}-patch.1" does not exist yet, and fails
\* with git's duplicate-name error and creates nothing when it exists.
C15_FirstPatch ==
  LET r == init_new_patch(tags)
  IN IF ProdTags = {} THEN r = Keep(tags, RetNone)
     ELSE IF Top(ProdTags) \o Seed(PATCH) \in Names(tags) THEN Duplicate(r)
     ELSE /\ Created(r, Top(ProdTags) \o Seed(PATCH))
          /\ CommitOf(r.tags, r.out.value) = CommitOf(tags, Top(ProdTags))

\* The first patch of a production version was promoted, and the next init_new_patch
\* is for the production version that promotion created.
C15_Witness ==
  \E P \in ProdTags :
    /\ P \o Seed(PATCH) \in Names(tags)
    /\ Format(BumpPatch(Parse(P))) \in promoted
    /\ init_new_patch(tags).out = Ret(Format(BumpPatch(Parse(P))) \o Seed(PATCH))

\* The highest ordinal of a family that is not empty.
MaxOrd(base, channel) ==
  CHOOSE n \in Numbers :
    /\ PreName(base, channel, n) \in Names(tags)
    /\ \A m \in Numbers : m > n => PreName(base, channel, m) \notin Names(tags)

\* The illegal transitions of increment_rc_patch, from the production tags.
RcIllegal(base) == base \in Names(tags)

PatchMissing(base) == base \notin Names(tags)

PatchShipped(base) ==
  base \in Names(tags) /\ Format(BumpPatch(Parse(base))) \in Names(tags)

IllegalFor(base, channel) ==
  IF channel = RC THEN RcIllegal(base) ELSE PatchMissing(base) \/ PatchShipped(base)

\* C16: when no illegal transition applies and the (base, channel) family is not
\* empty, increment_rc_patch(base, channel) for channel rc or patch creates and returns
\* the highest tag of the family with its ordinal raised by one, and
\* get_current_rc_patch(base, channel) just after it returns that new tag.
C16_NextOrdinal ==
  \A base \in Bases, channel \in {RC, PATCH} :
    ~IllegalFor(base, channel) /\ Family(base, channel) # {}
      => LET r == increment_rc_patch(tags, head, base, channel)
             next == PreName(base, channel, MaxOrd(base, channel) + 1)
         IN /\ Created(r, next)
            /\ CommitOf(r.tags, next) = head
            /\ get_current_rc_patch(r.tags, base, channel) = Ret(next)

\* A patch family of two tags on a production version whose next patch level is not
\* released, with the second tag the current one.
C16_Witness ==
  \E base \in ProdTags :
    /\ ~PatchShipped(base)
    /\ Cardinality(Family(base, PATCH)) > 1
    /\ get_current_rc_patch(tags, base, PATCH)
         = Ret(PreName(base, PATCH, MaxOrd(base, PATCH)))

\* The base tags C17 is checked for: those in SemVer form with ordinals 0 to 3 in the
\* families of the repository.
GapArgs ==
  {t \in ClaimTagArgs : MatchPre(t).ok /\ Parse(t).ok}
    \cup {PreName(BaseOf(n), c, k) : n \in Names(tags), c \in ChannelArgs, k \in 0..3}

\* C17: a tag created by bumping an ordinal, in the in-place branch of
\* increment_prerelease_tag and in increment_rc_patch, has the highest ordinal of its
\* (base version, channel) family in the repository plus one, whatever base tag the
\* caller passes.
C17_HighestPlusOne ==
  /\ \A tag \in GapArgs, channel \in ChannelArgs, major_bump \in BOOLEAN :
       LET r == increment_prerelease_tag(tags, head, tag, channel, major_bump)
           g == GroupsOf(tag)
           base == Base(g.major, g.minor, g.patch)
       IN RcOneOf(tag) \notin Names(tags) /\ r.out.kind = "tag"
            /\ Family(base, g.chan) # {}
            => r.out.value = PreName(base, g.chan, MaxOrd(base, g.chan) + 1)
  /\ \A base \in Bases, channel \in {RC, PATCH} :
       LET r == increment_rc_patch(tags, head, base, channel)
       IN r.out.kind = "tag"
            => r.out.value = PreName(base, channel, MaxOrd(base, channel) + 1)

\* C18: with nothing to act on, the operations report none, not an error, and create
\* no tag: increment_rc_patch(base, "rc") with no production tag base and no rc tag of
\* base; increment_rc_patch(base, "patch") with production base, bump_patch(base) not
\* in production and no patch tag of base; init_new_rc with no tag in the channel;
\* init_new_patch with no production tag.
C18_NothingToActOn ==
  /\ \A base \in Bases \cup BaseArgs :
       MatchProd(base).ok /\ ~find_tag(tags, base)
         /\ get_current_rc_patch(tags, base, RC) = RetNone
         => increment_rc_patch(tags, head, base, RC) = Keep(tags, RetNone)
  /\ \A base \in Bases :
       base \in Names(tags) /\ ~PatchShipped(base) /\ Family(base, PATCH) = {}
         => increment_rc_patch(tags, head, base, PATCH) = Keep(tags, RetNone)
  /\ \A channel \in ChannelArgs :
       ChannelTags(channel) = {} => init_new_rc(tags, channel) = Keep(tags, RetNone)
  /\ ProdTags = {} => init_new_patch(tags) = Keep(tags, RetNone)

\* A production version without patch tags, beside tags of another base version that
\* has neither a production tag nor an rc tag, in a repository without patch tags.
C18_Witness ==
  /\ \E base \in ProdTags : ~PatchShipped(base) /\ Family(base, PATCH) = {}
  /\ \E n \in Names(tags) : BaseOf(n) \notin Names(tags) /\ Family(BaseOf(n), RC) = {}
  /\ ChannelTags(PATCH) = {}

\* Strings outside the grammars: "", "0.1-dev.1", "0.1.0-dev", "0.1.0-dev.a" and
\* "invalid-tag".
Malformed ==
  { <<>>,
    <<"0", ".", "1", "-", "d", "e", "v", ".", "1">>,
    <<"0", ".", "1", ".", "0", "-", "d", "e", "v">>,
    <<"0", ".", "1", ".", "0", "-", "d", "e", "v", ".", "a">>,
    <<"i", "n", "v", "a", "l", "i", "d", "-", "t", "a", "g">> }

\* C19: given a string outside its grammar, every operation reports a format error
\* (ValueError) and leaves the tag set unchanged: get_init_rc_tag and
\* increment_prerelease_tag outside X.Y.Z-letters.N, get_current_rc_patch and
\* increment_rc_patch outside X.Y.Z, create_prod_tag outside X.Y.Z-(rc|patch).N.
C19_FormatErrors ==
  \A s \in ClaimTagArgs \cup Malformed, channel \in ChannelArgs :
    /\ ~FullMatchPre(s).ok
         => /\ get_init_rc_tag(s).kind = "ValueError"
            /\ \A major_bump \in BOOLEAN :
                 Failed(increment_prerelease_tag(tags, head, s, channel, major_bump),
                        {"ValueError"})
    /\ ~FullMatchProd(s).ok
         => /\ get_current_rc_patch(tags, s, channel).kind = "ValueError"
            /\ Failed(increment_rc_patch(tags, head, s, channel), {"ValueError"})
    /\ ~(FullMatchPre(s).ok /\ FullMatchPre(s).chan \in {RC, PATCH})
         => Failed(create_prod_tag(tags, s), {"ValueError"})

\* C20: the three illegal transitions of increment_rc_patch carry three different
\* reasons, and every call is answered with the reason of its case and no other:
\* production exists for an rc request, production is missing for a patch request, the
\* next patch level is in production for a patch request; in no other case is the
\* call an illegal transition.
C20_ThreeReasons ==
  /\ Cardinality({ProdAvailable, ProdNotAvailable, PatchInProd}) = 3
  /\ \A base \in Bases, channel \in {RC, PATCH} :
       LET out == increment_rc_patch(tags, head, base, channel).out
       IN /\ out.kind = "InvalidTagCreation" <=> IllegalFor(base, channel)
          /\ out.kind = "InvalidTagCreation" =>
               /\ out.reason = ProdAvailable <=> channel = RC /\ RcIllegal(base)
               /\ out.reason = ProdNotAvailable <=> channel = PATCH /\ PatchMissing(base)
               /\ out.reason = PatchInProd <=> channel = PATCH /\ PatchShipped(base)

\* All three reasons are given in one state.
C20_Witness ==
  \E base \in ProdTags, other \in Bases :
    /\ increment_rc_patch(tags, head, base, RC).out.reason = ProdAvailable
    /\ increment_rc_patch(tags, head, base, PATCH).out.reason = PatchInProd
    /\ increment_rc_patch(tags, head, other, PATCH).out.reason = ProdNotAvailable

\* init_new_rc("dev") and then create_prod_tag of the tag it returned.
RoundTrip == create_prod_tag(init_new_rc(tags, DEV).tags, init_new_rc(tags, DEV).out.value)

InitRcArgs ==
  {n \in Names(tags) : MatchPre(n).ok}
    \cup {PreName(Base(a, b, 0), c, k) :
            a \in {0, 1, 10}, b \in {0, 2}, c \in ChannelArgs \cup {<<"x">>},
            k \in {1, 2, 9, 10}}

\* What the claim names as the result: X.Y.Z-rc.1, from the numbers of the tag.
RcFirstOf(tag) ==
  PreName(Base(GroupsOf(tag).major, GroupsOf(tag).minor, GroupsOf(tag).patch), RC, 1)

\* C22: get_init_rc_tag("X.Y.Z-c.N") returns "X.Y.Z-rc.1" for every base version,
\* every channel c of lowercase letters, rc included, and every ordinal N; it is a
\* function of its argument alone, and applied to its own result it returns that
\* result.
C22_InitRcName ==
  \A tag \in InitRcArgs :
    /\ get_init_rc_tag(tag) = Ret(RcFirstOf(tag))
    /\ get_init_rc_tag(get_init_rc_tag(tag).value) = get_init_rc_tag(tag)

\* The repository holds a later rc tag of a version and a tag of another channel of
\* it; get_init_rc_tag names the same rc.1 for both.
C22_Witness ==
  \E n \in Names(tags), o \in Names(tags) :
    /\ MatchChannel(RC, n) /\ GroupsOf(n).ord > 1
    /\ MatchPre(o).ok /\ GroupsOf(o).chan # RC
    /\ get_init_rc_tag(n) = get_init_rc_tag(o)
    /\ get_init_rc_tag(n).value \notin Names(tags)

\* The repository holds the first i tags of the lifecycle and no other.
WalkedTo(i) == Names(tags) = {WalkTags[k] : k \in 1..i}

\* The call of step i of the lifecycle, made in the current state.
WalkCall(i) ==
  CASE i = 1 -> increment_prerelease_tag(tags, head, None, DEV, FALSE)
    [] i = 2 -> increment_prerelease_tag(tags, head, WalkTags[1], DEV, FALSE)
    [] i = 3 -> init_new_rc(tags, DEV)
    [] i = 4 -> increment_rc_patch(tags, head, WalkV, RC)
    [] i = 5 -> create_prod_tag(tags, WalkTags[4])
    [] i = 6 -> init_new_patch(tags)
    [] i = 7 -> increment_rc_patch(tags, head, WalkV, PATCH)
    [] i = 8 -> create_prod_tag(tags, WalkTags[7])

\* C23 as claimed: from a repository that is empty, each step of the lifecycle
\* succeeds in the state the step before it left.
C23_Claimed == \A i \in 1..8 : WalkedTo(i - 1) => Created(WalkCall(i), WalkTags[i])

\* C23, amended: from a repository without tags that has a commit, the lifecycle can
\* be walked with every step succeeding in the state the step before it left:
\* increment_prerelease_tag() (dev.1), increment_prerelease_tag(dev.1) (dev.2),
\* init_new_rc() (rc.1), increment_rc_patch(V, "rc") (rc.2), create_prod_tag(V-rc.2)
\* (V), init_new_patch() (V-patch.1), increment_rc_patch(V, "patch") (patch.2),
\* create_prod_tag(V-patch.2) (bump_patch(V)); in a repository without commits the
\* first step fails with a backend error.
C23_Lifecycle ==
  /\ \A i \in 1..8 : head > 0 /\ WalkedTo(i - 1) => Created(WalkCall(i), WalkTags[i])
  /\ head = 0 => tags = {} /\ Failed(WalkCall(1), {"GitCommandError"})

\* The end of the walk: the eight tags, both production tags made by create_prod_tag.
C23_Witness == WalkedTo(8) /\ promoted = {WalkV, Base(0, 1, 1)}

\* A call added the tag it returned and no other, or returned no tag and added none.
OneOrNone(r) ==
  IF r.out.kind = "tag"
  THEN /\ r.out.value \notin Names(tags)
       /\ \E c \in 1..head : r.tags = tags \cup {[name |-> r.out.value, commit |-> c]}
  ELSE r.tags = tags

\* C24: every operation adds at most one tag to the repository: the tag it returns
\* when it returns a tag name, and none when it returns none or ends in an error; the
\* queries are functions of the tag list and add none.
C24_AtMostOne ==
  /\ \A tag \in ClaimTagArgs \cup Malformed \cup {None}, channel \in ChannelArgs :
       /\ \A major_bump \in BOOLEAN :
            OneOrNone(increment_prerelease_tag(tags, head, tag, channel, major_bump))
       /\ tag # None => OneOrNone(create_prod_tag(tags, tag))
       /\ tag # None => OneOrNone(increment_rc_patch(tags, head, BaseOf(tag), channel))
  /\ \A channel \in ChannelArgs : OneOrNone(init_new_rc(tags, channel))
  /\ OneOrNone(init_new_patch(tags))

\* Three tags after three calls, in a state where one call returns none, one ends in
\* an illegal transition and one creates a tag.
C24_Witness ==
  /\ Cardinality(tags) = 3
  /\ \E base \in ProdTags :
       /\ increment_rc_patch(tags, head, base, PATCH).out = RetNone
       /\ increment_rc_patch(tags, head, base, RC).out.kind = "InvalidTagCreation"
  /\ init_new_patch(tags).out.kind = "tag"

\* C25: the tag set only grows: no step removes or renames a tag, and the commit a
\* tag points to never changes.
C25_OnlyGrows ==
  [][\A t \in tags :
       /\ t \in tags'
       /\ \A u \in tags' : u.name = t.name => u = t]_vars

\* Eight tags, some set before and some after HEAD moved on.
C25_Witness ==
  /\ Cardinality(tags) = MaxWalkTags
  /\ head = 2
  /\ {t.commit : t \in tags} = {1, 2}
  /\ Cardinality(promoted) > 1

\* C26: a tag created by init_new_rc points at the commit of the dev tag it was
\* derived from, a tag created by init_new_patch at the commit of the production tag
\* it was derived from, and a tag created by create_prod_tag at the commit of its
\* source rc or patch tag, wherever HEAD is.
C26_SourceCommit ==
  /\ \A channel \in ChannelArgs :
       LET r == init_new_rc(tags, channel)
       IN r.out.kind = "tag"
            => r.tags \ tags = {[name |-> r.out.value,
                                 commit |-> CommitOf(tags, Top(ChannelTags(channel)))]}
  /\ LET r == init_new_patch(tags)
     IN r.out.kind = "tag"
          => r.tags \ tags = {[name |-> r.out.value, commit |-> CommitOf(tags, Top(ProdTags))]}
  /\ \A tag \in Names(tags) :
       LET r == create_prod_tag(tags, tag)
       IN r.out.kind = "tag"
            => r.tags \ tags = {[name |-> r.out.value, commit |-> CommitOf(tags, tag)]}

\* HEAD moved on and a later rc was set on the new commit; the production tag, made
\* after that, is on the old commit of the first rc, and so is the first patch.
C26_Witness ==
  \E V \in promoted :
    /\ head = 2
    /\ CommitOf(tags, V) = 1
    /\ \E n \in Family(V, RC) : CommitOf(tags, n) = 2
    /\ V \o Seed(PATCH) \in Names(tags)
    /\ CommitOf(tags, V \o Seed(PATCH)) = 1

\* The names find_tag is asked for: the tag arguments, and two names with dots where
\* a tag of the repository may have other characters.
QueryNames ==
  ClaimTagArgs
    \cup { <<"0", ".", "1", ".", "0", "-", "r", "c", ".", ".">>,
           <<".", ".", ".", ".", ".">> }

\* A tag name set from outside the Engine, of a shape no operation creates.
ForeignNames == {<<"0", "x", "1", "x", "0">>}

\* C27: find_tag(name) is true if and only if the repository holds a tag named
\* exactly name, in the repositories the Engine builds and in those with one more
\* tag, of another shape, set from outside.
C27_ExactMatch ==
  /\ \A name \in QueryNames : find_tag(tags, name) <=> name \in Names(tags)
  /\ \A name \in QueryNames, f \in ForeignNames :
       find_tag(tags \cup {[name |-> f, commit |-> 1]}, name)
         <=> name \in Names(tags) \cup {f}

\* The SemVer order on names, from their numbers: base version, then a production
\* tag above the prerelease tags of its version, then channel, then ordinal.
NameKey(n) ==
  IF MatchPre(n).ok
  THEN [base |-> <<GroupsOf(n).major, GroupsOf(n).minor, GroupsOf(n).patch>>,
        prod |-> FALSE, chan |-> GroupsOf(n).chan, ord |-> GroupsOf(n).ord]
  ELSE [base |-> <<Num(MatchProd(n).major), Num(MatchProd(n).minor),
                   Num(MatchProd(n).patch)>>,
        prod |-> TRUE, chan |-> <<>>, ord |-> 0]

TupleBelow(a, b) ==
  \E i \in 1..3 : a[i] < b[i] /\ \A j \in 1..(i - 1) : a[j] = b[j]

Below(a, b) ==
  \/ TupleBelow(NameKey(a).base, NameKey(b).base)
  \/ /\ NameKey(a).base = NameKey(b).base
     /\ \/ ~NameKey(a).prod /\ NameKey(b).prod
        \/ /\ ~NameKey(a).prod /\ ~NameKey(b).prod
           /\ \/ StrLess(NameKey(a).chan, NameKey(b).chan)
              \/ /\ NameKey(a).chan = NameKey(b).chan
                 /\ NameKey(a).ord < NameKey(b).ord

\* What the claim asks of the result for the matching names M.
Greatest(M, out) ==
  IF M = {} THEN out = RetNone
  ELSE /\ out.kind = "tag"
       /\ out.value \in M
       /\ \A o \in M \ {out.value} : Below(o, out.value)

\* The tags of the claim's example.
OrderExample ==
  { PreName(Base(1, 0, 0), DEV, 9), PreName(Base(1, 0, 0), DEV, 10),
    PreName(Base(0, 1, 0), DEV, 1) }

\* C28: find_tag_with_pattern returns the SemVer-greatest of the matching tags, base
\* version first and then the ordinal as a number (1.0.0-dev.10 above 1.0.0-dev.9
\* above 0.1.0-dev.1), and none when no tag matches: for the tags of a channel, the
\* production tags, the tags of one family, and all tags.
C28_Greatest ==
  /\ \A channel \in ChannelArgs :
       Greatest(ChannelTags(channel), find_tag_with_pattern(ChannelTags(channel)))
  /\ Greatest(ProdTags, find_tag_with_pattern(ProdTags))
  /\ Greatest(Names(tags), find_tag_with_pattern(Names(tags)))
  /\ \A base \in Bases, channel \in ChannelArgs :
       Greatest(Family(base, channel), find_tag_with_pattern(Family(base, channel)))
  /\ \A M \in SUBSET OrderExample : Greatest(M, find_tag_with_pattern(M))
  /\ find_tag_with_pattern(OrderExample) = Ret(PreName(Base(1, 0, 0), DEV, 10))

\* The current dev tag is the first tag of a higher base version, above a tag of a
\* lower version whose ordinal is higher.
C28_Witness ==
  \E n \in ChannelTags(DEV) :
    /\ get_current_tag(tags, DEV, FALSE) = Ret(n)
    /\ \E o \in ChannelTags(DEV) :
         /\ GroupsOf(o).ord > GroupsOf(n).ord
         /\ TupleBelow(NameKey(o).base, NameKey(n).base)

\* C29: the current-tag queries return no tag outside the family asked for:
\* get_current_tag(production=True) returns bare X.Y.Z tags only, whatever the channel
\* argument; get_current_tag(channel) returns tags of that channel only;
\* get_current_rc_patch(base, channel) returns tags of that base version and channel
\* only, and none when that family is empty.
C29_InFamily ==
  /\ \A channel \in ChannelArgs :
       /\ get_current_tag(tags, channel, TRUE) = get_current_tag(tags, DEV, TRUE)
       /\ get_current_tag(tags, channel, TRUE).kind \in {"tag", "none"}
       /\ get_current_tag(tags, channel, TRUE).kind = "tag"
            => /\ get_current_tag(tags, channel, TRUE).value \in Names(tags)
               /\ FullMatchProd(get_current_tag(tags, channel, TRUE).value).ok
       /\ get_current_tag(tags, channel, FALSE).kind \in {"tag", "none"}
       /\ get_current_tag(tags, channel, FALSE).kind = "tag"
            => /\ get_current_tag(tags, channel, FALSE).value \in Names(tags)
               /\ FullMatchPre(get_current_tag(tags, channel, FALSE).value).ok
               /\ FullMatchPre(get_current_tag(tags, channel, FALSE).value).chan = channel
  /\ \A base \in Bases, channel \in ChannelArgs :
       LET out == get_current_rc_patch(tags, base, channel)
       IN IF Family(base, channel) = {} THEN out = RetNone
          ELSE out.kind = "tag" /\ out.value \in Family(base, channel)

\* Tags of the three channels and a production tag, over two base versions.
C29_Witness ==
  /\ \A channel \in ChannelArgs : ChannelTags(channel) # {}
  /\ ProdTags # {}
  /\ Cardinality({BaseOf(n) : n \in Names(tags)}) > 1

\* The callers inside increment_rc_patch that hold the highest tag of a family.
Holding(c) == calls[c] # Idle /\ calls[c].current_rc.kind = "tag"

\* The name caller c is about to create.
Pending(c) == Format(BumpPrerelease(Parse(calls[c].current_rc.value)))

\* The rest of caller c's call, run in the repository T.
Finish(T, c) == BumpCurrent(T, head, calls[c].current_rc)

\* C30: when two callers are inside increment_rc_patch holding the same highest tag
\* and neither has created, whichever creates first succeeds with the next name and
\* the other then fails with the backend's duplicate-name error, so the tag set gains
\* exactly one tag; and a caller whose next name was created by another while it was
\* inside the call fails with that error and leaves the repository as it is.
C30_OneWins ==
  /\ \A c, d \in Callers :
       c # d /\ Holding(c) /\ calls[d] = calls[c] /\ Pending(c) \notin Names(tags)
       => /\ Created(Finish(tags, c), Pending(c))
          /\ Finish(Finish(tags, c).tags, d).out = Raise("GitCommandError", "tag already exists")
          /\ Finish(Finish(tags, c).tags, d).tags = Finish(tags, c).tags
          /\ Cardinality(Finish(Finish(tags, c).tags, d).tags) = Cardinality(tags) + 1
  /\ \A c \in Callers :
       Holding(c) /\ Pending(c) \in Names(tags) => Duplicate(Finish(tags, c))

\* One caller has created rc.3 from the rc.2 both read; the other is still in its call.
C30_Witness ==
  /\ calls[1] = Idle
  /\ Holding(2)
  /\ calls[2].current_rc.value = PreName(WalkV, RC, 2)
  /\ PreName(WalkV, RC, 3) \in Names(tags)
  /\ WalkV \notin Names(tags)

\* The channel of a tag X.Y.Z-c.N.
ChannelOf(name) == MatchPre(name).chan

\* The result of get_current_tag(channel) is the tag name or a tag above it.
AtOrAbove(cur, name) ==
  /\ cur.kind = "tag"
  /\ cur.value = name \/ Less(Parse(name), Parse(cur.value))

\* The base tag of a call is what get_current_tag(channel) returns before the call;
\* for an omitted base tag, the channel has no tag.
OnCurrent(tag, channel) ==
  IF tag = None THEN get_current_tag(tags, channel, FALSE) = RetNone
  ELSE get_current_tag(tags, channel, FALSE) = Ret(tag)

\* C31 as claimed: after increment_prerelease_tag returns a tag T, get_current_tag
\* for T's channel returns T, whatever other families the channel holds.
C31_Claimed ==
  \A tag \in ClaimTagArgs \cup {None}, channel \in ChannelArgs, major_bump \in BOOLEAN :
    LET r == increment_prerelease_tag(tags, head, tag, channel, major_bump)
    IN r.out.kind = "tag" =>
         get_current_tag(r.tags, ChannelOf(r.out.value), FALSE) = r.out

\* C31, amended: after increment_prerelease_tag returns a tag T, get_current_tag for
\* T's channel returns T or a SemVer-higher tag of that channel; it returns T when the
\* base tag of the call was the current tag of the channel argument, or was omitted
\* with no tag in that channel.  A call on an older base tag, or a seed made beside
\* existing tags, creates a tag that is not the current one.
C31_CurrentAfter ==
  \A tag \in ClaimTagArgs \cup {None}, channel \in ChannelArgs, major_bump \in BOOLEAN :
    LET r == increment_prerelease_tag(tags, head, tag, channel, major_bump)
    IN r.out.kind = "tag" =>
         /\ AtOrAbove(get_current_tag(r.tags, ChannelOf(r.out.value), FALSE), r.out.value)
         /\ OnCurrent(tag, channel) =>
              get_current_tag(r.tags, ChannelOf(r.out.value), FALSE) = r.out

\* A new base version was started off the current dev tag while its release candidate
\* exists: the channel holds two families and the new tag is the current one.
C31_Witness ==
  /\ {PreName(Base(0, 1, 0), DEV, 1), PreName(Base(0, 1, 0), RC, 1),
      PreName(Base(0, 2, 0), DEV, 1)} \subseteq Names(tags)
  /\ get_current_tag(tags, DEV, FALSE) = Ret(PreName(Base(0, 2, 0), DEV, 1))

\* C32: increment_prerelease_tag makes the seed tag only for an omitted base tag; for
\* every supplied base tag string outside the grammar X.Y.Z-letters.N, the empty
\* string included, it fails with a format error (ValueError) and creates no tag.
C32_SeedOnlyWhenOmitted ==
  \A s \in ClaimTagArgs \cup Malformed, channel \in ChannelArgs, major_bump \in BOOLEAN :
    ~FullMatchPre(s).ok =>
      /\ increment_prerelease_tag(tags, head, s, channel, major_bump).out.kind = "ValueError"
      /\ increment_prerelease_tag(tags, head, s, channel, major_bump).tags = tags

\* The base versions of the tags of the repository and of the names it may be given.
BootBases == {BaseOf(n) : n \in Names(tags) \cup BootNames}

\* The next patch level of a base version X.Y.Z.
NextPatch(base) == Format(BumpPatch(Parse(base)))

\* C33: increment_rc_patch checks in a fixed order.  A string outside X.Y.Z is a
\* format error, also where it names a tag of the repository (so the rc check would
\* find it) and where it names none (so the patch check would miss it).  An rc
\* request for a base that has its production tag and no rc tag is an illegal
\* transition with the reason "production available", not None.  A patch request for
\* a base without its production tag whose next patch level is in production is
\* refused with the reason "production not available", not "patch in production".
C33_CheckOrder ==
  /\ \A s \in Names(tags) \cup Malformed, channel \in {RC, PATCH} :
       ~FullMatchProd(s).ok =>
         Failed(increment_rc_patch(tags, head, s, channel), {"ValueError"})
  /\ \A base \in BootBases :
       base \in Names(tags) /\ Family(base, RC) = {} =>
         /\ Illegal(increment_rc_patch(tags, head, base, RC))
         /\ increment_rc_patch(tags, head, base, RC).out.reason = ProdAvailable
  /\ \A base \in BootBases :
       base \notin Names(tags) /\ NextPatch(base) \in Names(tags) =>
         /\ Illegal(increment_rc_patch(tags, head, base, PATCH))
         /\ increment_rc_patch(tags, head, base, PATCH).out.reason = ProdNotAvailable

\* 0.1.1 was promoted from a patch tag of 0.1.0 while the production tag 0.1.0 is
\* missing: 0.1.1 has no rc tag, and 0.1.0 lacks its production tag with the next
\* patch level shipped; the patch tag given as base names a tag of the repository.
C33_Witness ==
  /\ Base(0, 1, 1) \in promoted
  /\ Base(0, 1, 0) \notin Names(tags)
  /\ Family(Base(0, 1, 1), RC) = {}
  /\ PreName(Base(0, 1, 0), PATCH, 1) \in Names(tags)

C35_ChannelOfResult ==
  \A tag \in ClaimTagArgs \cup {None}, channel \in ChannelArgs, major_bump \in BOOLEAN :
    LET r == increment_prerelease_tag(tags, head, tag, channel, major_bump)
    IN r.out.kind = "tag" =>
         IF tag = None THEN r.out.value = Base(0, 1, 0) \o Seed(channel)
         ELSE IF RcOneOf(tag) \in Names(tags)
         THEN /\ ChannelOf(r.out.value) = channel
              /\ r.out.value = BumpedBase(tag, major_bump) \o Seed(channel)
         ELSE /\ ChannelOf(r.out.value) = ChannelOf(tag)
              /\ r.out.value = InPlaceOf(tag)

\* The dev family was incremented in place, and with the channel argument "rc" the
\* next call on 0.1.0-dev.2 returns 0.1.0-dev.3.
C35_Witness ==
  /\ Names(tags) = {PreName(Base(0, 1, 0), DEV, 1), PreName(Base(0, 1, 0), DEV, 2)}
  /\ increment_prerelease_tag(tags, head, PreName(Base(0, 1, 0), DEV, 2), RC, FALSE).out
       = Ret(PreName(Base(0, 1, 0), DEV, 3))

\* The tags a production tag can be promoted from: the rc tags of its base version and
\* the patch tags of the patch level below it.
SourcesOf(prod) ==
  {n \in Names(tags) :
     /\ RcOrPatch(n)
     /\ Parse(n).ok
     /\ ProdOf(n) = prod}

\* C36: create_prod_tag of a well-formed rc or patch tag name that names no tag of the
\* repository fails with the backend's error for a name that resolves to no commit and
\* creates nothing, whether or not the production tag exists; and every production tag
\* that create_prod_tag has created has a source tag in the repository, an rc tag of
\* its base version or a patch tag of the patch level below.
C36_SourceExists ==
  /\ \A tag \in ClaimTagArgs \cup BootNames :
       RcOrPatch(tag) /\ Parse(tag).ok /\ tag \notin Names(tags) =>
         Failed(create_prod_tag(tags, tag), {"BadName"})
  /\ \A prod \in promoted : SourcesOf(prod) # {}

\* 0.1.1 was promoted from 0.1.0-patch.1 in a repository without 0.1.0-rc.1, where
\* create_prod_tag("0.1.0-rc.1") finds no commit although 0.1.0 is not a tag.
C36_Witness ==
  /\ Base(0, 1, 1) \in promoted
  /\ PreName(Base(0, 1, 0), RC, 1) \notin Names(tags)
  /\ Base(0, 1, 0) \notin Names(tags)

\* C37: when init_new_patch returns a tag, the tag is P-patch.1 for a production tag P
\* of the repository that no production tag is SemVer-higher than, and the next patch
\* level of P is not a tag: the patch family is opened under the patch-family rule.
C37_PatchRuleAtInit ==
  init_new_patch(tags).out.kind = "tag" =>
    \E P \in ProdTags :
      /\ Created(init_new_patch(tags), P \o Seed(PATCH))
      /\ \A Q \in ProdTags : ~Less(Parse(P), Parse(Q))
      /\ NextPatch(P) \notin Names(tags)

\* init_new_patch has opened the patch family of 0.1.2, the highest of three
\* production tags.
C37_Witness ==
  /\ {Base(0, 1, 0), Base(0, 1, 1), Base(0, 1, 2)} \subseteq Names(tags)
  /\ PreName(Base(0, 1, 2), PATCH, 1) \in Names(tags)

\* The release candidates created by a step whose base version was in production
\* before the step.
LateCandidates ==
  {n \in Names(tags') \ Names(tags) : MatchChannel(RC, n) /\ BaseOf(n) \in Names(tags)}

\* Caller c holds a release candidate whose base version is in production by now.
Overtaken(c) ==
  /\ Holding(c)
  /\ ChannelOf(calls[c].current_rc.value) = RC
  /\ BaseOf(calls[c].current_rc.value) \in Names(tags)

Classified == {"tag", "none", "ValueError", "InvalidTagCreation", "GitCommandError", "BadName"}

\* C39: increment_rc_patch of a well-formed base X.Y.Z with a channel other than "rc"
\* and "patch" ends in a defined outcome and, unless it returns a tag, leaves the
\* repository as it was.
C39_OtherChannelsClassified ==
  \A base \in BaseArgs, channel \in ChannelArgs \ {RC, PATCH} :
    MatchProd(base).ok =>
      /\ increment_rc_patch(tags, head, base, channel).out.kind \in Classified
      /\ increment_rc_patch(tags, head, base, channel).out.kind # "tag"
           => increment_rc_patch(tags, head, base, channel).tags = tags

====
